---- MODULE Spec2Model ----
(***************************************************************************)
(* VIP reconciliation bot (src/index.js): the entitlement store, the       *)
(* roster ingestor, the trial lifecycle, the three-phase reconciliation    *)
(* pass with its single-flight flag, the join handler and the status       *)
(* query.                                                                  *)
(*                                                                         *)
(* Time is counted in units of 30 days, so that ONE_MONTH is 1 unit; the   *)
(* LIFETIME_UNTIL sentinel is a timestamp above every timestamp the bot    *)
(* can compute within the clock bound.  SQL NULL and 0 are both written 0: *)
(* the code reads every column through `|| 0` or a truthiness test.        *)
(* Strings are sequences of one-character strings.                         *)
(***************************************************************************)
EXTENDS Integers, Sequences, FiniteSets, TLC

\* ------------------------------------------------------------------ bounds
\* The clock starts at 1 and runs up to MaxTime.
MaxTime == 2

\* Invocations of syncFromSheetOptimised that can be in flight at once
MaxInFlight == 2

\* Most data rows of a roster that getEligibilityMap is applied to on its own
MaxRows == 2

\* Most calls of ensureTrialRecordFor in a row for one member
MaxCalls == 3

\* ------------------------------------------------------- program constants
ONE_MONTH == 1

LIFETIME_UNTIL == 100

\* ------------------------------------------------------------------ strings
LowerChars ==
  << "a","b","c","d","e","f","g","h","i","j","k","l","m",
     "n","o","p","q","r","s","t","u","v","w","x","y","z" >>

UpperChars ==
  << "A","B","C","D","E","F","G","H","I","J","K","L","M",
     "N","O","P","Q","R","S","T","U","V","W","X","Y","Z" >>

\* String.prototype.toLowerCase, one character
LowerChar(c) ==
  IF \E i \in 1..26 : UpperChars[i] = c
  THEN LowerChars[CHOOSE i \in 1..26 : UpperChars[i] = c]
  ELSE c

\* String.prototype.toUpperCase, one character
UpperChar(c) ==
  IF \E i \in 1..26 : LowerChars[i] = c
  THEN UpperChars[CHOOSE i \in 1..26 : LowerChars[i] = c]
  ELSE c

toLowerCase(s) == [i \in 1..Len(s) |-> LowerChar(s[i])]

toUpperCase(s) == [i \in 1..Len(s) |-> UpperChar(s[i])]

IsSpace(c) == c \in {" ", "\t"}

\* String.prototype.trim: drop the white space at both ends
trim(s) ==
  LET keep == {i \in 1..Len(s) : ~IsSpace(s[i])}
  IN  IF keep = {} THEN << >>
      ELSE LET lo == CHOOSE i \in keep : \A j \in keep : i <= j
               hi == CHOOSE i \in keep : \A j \in keep : j <= i
           IN  SubSeq(s, lo, hi)

\* Array.prototype.indexOf, 1-based; 0 stands for JavaScript's -1
indexOf(seq, x) ==
  IF \E i \in 1..Len(seq) : seq[i] = x
  THEN CHOOSE i \in 1..Len(seq) : seq[i] = x /\ \A j \in 1..(i-1) : seq[j] # x
  ELSE 0

\* row[i] || "": a cell past the end of a row is undefined
Cell(row, i) == IF i \in 1..Len(row) THEN row[i] ELSE << >>

S_discord_id == << "d","i","s","c","o","r","d","_","i","d" >>

S_lifetime_vip == << "l","i","f","e","t","i","m","e","_","v","i","p" >>

S_YES == << "Y","E","S" >>

\* ------------------------------------------------------------ the roster
\* Member ids, as the strings of the roster's identifier column
IdA == << "1" >>

IdB == << "2" >>

Users == {IdA, IdB}

\* MapSet that keeps the value of a key that is present
MapSet_FirstWins(map, id, approved) ==
  IF \E i \in 1..Len(map) : map[i].id = id
  THEN map
  ELSE Append(map, [id |-> id, approved |-> approved])

\* Map.prototype.set: a key that is present keeps its place in the iteration
\* order and takes the new value; a new key goes to the end.
MapSet(map, id, approved) ==
  IF \E i \in 1..Len(map) : map[i].id = id
  THEN [i \in 1..Len(map) |->
          IF map[i].id = id THEN [id |-> id, approved |-> approved] ELSE map[i]]
  ELSE Append(map, [id |-> id, approved |-> approved])

\* Map.prototype.get(id) === true
MapApproved(map, id) ==
  \E i \in 1..Len(map) : map[i].id = id /\ map[i].approved

MapHas(map, id) == \E i \in 1..Len(map) : map[i].id = id

\* the loop of getEligibilityMap over the data rows i..Len(rows)
RECURSIVE EligibilityRows(_, _, _, _, _)
EligibilityRows(rows, i, discordIdx, lifetimeIdx, map) ==
  IF i > Len(rows) THEN map
  ELSE LET row == rows[i]
           id  == trim(Cell(row, discordIdx))
           val == toUpperCase(trim(Cell(row, lifetimeIdx)))
       IN  IF id = << >>
           THEN EligibilityRows(rows, i + 1, discordIdx, lifetimeIdx, map)
           ELSE EligibilityRows(rows, i + 1, discordIdx, lifetimeIdx,
                                MapSet(map, id, val = S_YES))

\* getEligibilityMap without the test for the approval column: the cell
\* row[-1] of every row is undefined, and nobody is approved
getEligibilityMap_NoApprovalCheck(rows) ==
  IF Len(rows) < 2 THEN [err |-> "none", map |-> << >>]
  ELSE LET headers     == [i \in 1..Len(rows[1]) |-> trim(toLowerCase(rows[1][i]))]
           discordIdx  == indexOf(headers, S_discord_id)
           lifetimeIdx == indexOf(headers, S_lifetime_vip)
       IN  IF discordIdx = 0
           THEN [err |-> "schema", map |-> << >>]
           ELSE [err |-> "none",
                 map |-> EligibilityRows(rows, 2, discordIdx, lifetimeIdx, << >>)]

\* getEligibilityMap: err is "none", or "schema" when a header is missing;
\* map is the sequence of entries in iteration order.
getEligibilityMap(rows) ==
  IF Len(rows) < 2 THEN [err |-> "none", map |-> << >>]
  ELSE LET headers     == [i \in 1..Len(rows[1]) |-> trim(toLowerCase(rows[1][i]))]
           discordIdx  == indexOf(headers, S_discord_id)
           lifetimeIdx == indexOf(headers, S_lifetime_vip)
       IN  IF discordIdx = 0 \/ lifetimeIdx = 0
           THEN [err |-> "schema", map |-> << >>]
           ELSE [err |-> "none",
                 map |-> EligibilityRows(rows, 2, discordIdx, lifetimeIdx, << >>)]

\* Roster snapshots the sheet can hold
HeaderPlain == << S_discord_id, S_lifetime_vip >>

HeaderMixed ==
  << << " ","D","i","s","c","o","r","d","_","I","D" >>,
     << "L","I","F","E","T","I","M","E","_","V","I","P"," " >> >>

HeaderNoApproval == << S_discord_id, << "n","a","m","e" >> >>

S_NO == << "N","O" >>

S_yes_padded == << " ","y","e","s"," " >>

SheetANotB == << HeaderPlain, << IdA, S_YES >>, << IdB, S_NO >> >>

SheetBOnly == << HeaderMixed, << << " ","2"," " >>, S_yes_padded >>, << IdA >> >>

SheetBoth == << HeaderPlain, << IdA, S_YES >>, << IdB, S_YES >> >>

SheetNoApprovalColumn == << HeaderNoApproval, << IdA, S_YES >> >>

SheetHeaderOnlyNoApproval == << HeaderNoApproval >>

Sheets ==
  { SheetANotB, SheetBOnly, SheetBoth, SheetNoApprovalColumn,
    SheetHeaderOnlyNoApproval }

\* getEligibilityMap of each of them, computed once
EligibilityOf == [s \in Sheets |-> getEligibilityMap(s)]

\* ------------------------------------------------------- entitlement store
NoRow == [none |-> TRUE]

Row(vip, trial) == [vip_until |-> vip, trial_until |-> trial]

\* INSERT OR REPLACE INTO vip_users (user_id, vip_until, trial_until)
Upsert(store, id, vip, trial) == [store EXCEPT ![id] = Row(vip, trial)]

\* Points of one member operation at which a collaborator call can fail
Faults == {"none", "role", "add", "remove", "get", "ensureWrite", "write"}

\* ensureTrialRecordFor writing the backfilled trial_until as vip_until too
ensureTrialRecordFor_BackfillSetsVip(store, id, joinedTs, t, f) ==
  LET row      == store[id]
      fallback == (IF joinedTs # 0 THEN joinedTs ELSE t) + ONE_MONTH
  IN  IF row = NoRow
      THEN [err |-> "none", store |-> Upsert(store, id, fallback, fallback),
            existing |-> Row(fallback, fallback)]
      ELSE IF row.trial_until = 0
      THEN [err |-> "none", store |-> Upsert(store, id, fallback, fallback),
            existing |-> Row(fallback, fallback)]
      ELSE [err |-> "none", store |-> store, existing |-> row]

\* ensureTrialRecordFor(member) at time t; joinedTs is member.joinedTimestamp
\* (0 when unknown).  A failed dbGet is caught and read as "no row".
ensureTrialRecordFor(store, id, joinedTs, t, f) ==
  LET row      == IF f = "get" THEN NoRow ELSE store[id]
      fallback == (IF joinedTs # 0 THEN joinedTs ELSE t) + ONE_MONTH
  IN  IF row = NoRow
      THEN IF f = "ensureWrite"
           THEN [err |-> "store", store |-> store, existing |-> NoRow]
           ELSE [err |-> "none", store |-> Upsert(store, id, fallback, fallback),
                 existing |-> Row(fallback, fallback)]
      ELSE IF row.trial_until = 0
      THEN LET trialUntil ==
                 IF row.vip_until # 0 /\ row.vip_until > t
                    /\ row.vip_until < LIFETIME_UNTIL
                 THEN row.vip_until ELSE fallback
           IN  IF f = "ensureWrite"
               THEN [err |-> "store", store |-> store, existing |-> NoRow]
               ELSE [err |-> "none",
                     store |-> [store EXCEPT ![id].trial_until = trialUntil],
                     existing |-> Row(row.vip_until, trialUntil)]
      ELSE [err |-> "none", store |-> store, existing |-> row]

\* setVipLifetime(member): the store and the role holders it leaves, and the
\* error it throws ("none" when it returns)
setVipLifetime(store, roles, id, joinedTs, t, f) ==
  IF f = "role" THEN [err |-> "role", store |-> store, roles |-> roles]
  ELSE IF f = "add" THEN [err |-> "mutation", store |-> store, roles |-> roles]
  ELSE LET e == ensureTrialRecordFor(store, id, joinedTs, t, f)
           trialUntil == IF e.existing.trial_until # 0
                         THEN e.existing.trial_until ELSE t + ONE_MONTH
       IN  IF e.err # "none"
           THEN [err |-> e.err, store |-> e.store, roles |-> roles \cup {id}]
           ELSE IF f = "write"
           THEN [err |-> "store", store |-> e.store, roles |-> roles \cup {id}]
           ELSE [err |-> "none",
                 store |-> Upsert(e.store, id, LIFETIME_UNTIL, trialUntil),
                 roles |-> roles \cup {id}]

\* setVipToTrialRemainingOrRemove without the grace branch: the role is
\* removed and vip_until set to 0 whatever trial_until is
setVipToTrialRemainingOrRemove_NoGrace(store, roles, id, joinedTs, t, f) ==
  LET e == ensureTrialRecordFor(store, id, joinedTs, t, f)
  IN  [err |-> "none",
       store |-> Upsert(e.store, id, 0, e.existing.trial_until),
       roles |-> roles \ {id}]

\* setVipToTrialRemainingOrRemove writing trial_until as vip_until in both
\* branches
setVipToTrialRemainingOrRemove_VipKept(store, roles, id, joinedTs, t, f) ==
  LET e == ensureTrialRecordFor(store, id, joinedTs, t, f)
      trialUntil == e.existing.trial_until
  IN  [err |-> "none",
       store |-> Upsert(e.store, id, trialUntil, trialUntil),
       roles |-> IF trialUntil > t THEN roles \cup {id} ELSE roles \ {id}]

\* setVipToTrialRemainingOrRemove without the write of the expired branch
setVipToTrialRemainingOrRemove_NoWrite(store, roles, id, joinedTs, t, f) ==
  LET e == ensureTrialRecordFor(store, id, joinedTs, t, f)
      trialUntil == e.existing.trial_until
  IN  IF trialUntil > t
      THEN [err |-> "none",
            store |-> Upsert(e.store, id, trialUntil, trialUntil),
            roles |-> roles \cup {id}]
      ELSE [err |-> "none", store |-> e.store, roles |-> roles \ {id}]

\* setVipToTrialRemainingOrRemove(member)
setVipToTrialRemainingOrRemove(store, roles, id, joinedTs, t, f) ==
  IF f = "role" THEN [err |-> "role", store |-> store, roles |-> roles]
  ELSE LET e == ensureTrialRecordFor(store, id, joinedTs, t, f)
       IN  IF e.err # "none"
           THEN [err |-> e.err, store |-> e.store, roles |-> roles]
           ELSE LET trialUntil == e.existing.trial_until
                IN  IF trialUntil > t
                    THEN \* still in trial
                         IF f = "add"
                         THEN [err |-> "mutation", store |-> e.store, roles |-> roles]
                         ELSE IF f = "write"
                         THEN [err |-> "store", store |-> e.store,
                               roles |-> roles \cup {id}]
                         ELSE [err |-> "none",
                               store |-> Upsert(e.store, id, trialUntil, trialUntil),
                               roles |-> roles \cup {id}]
                    ELSE \* trial expired: a rejected removal is swallowed
                         LET roles1 == IF f = "remove" THEN roles ELSE roles \ {id}
                         IN  IF f = "write"
                             THEN [err |-> "store", store |-> e.store, roles |-> roles1]
                             ELSE [err |-> "none",
                                   store |-> Upsert(e.store, id, 0, trialUntil),
                                   roles |-> roles1]

\* removeVipIfHas with the test of the role cache inverted
removeVipIfHas_Inverted(store, roles, id, f) ==
  [err |-> "none", store |-> store, roles |-> roles]

\* removeVipIfHas(member): a rejected removal is swallowed
removeVipIfHas(store, roles, id, f) ==
  IF f = "role" THEN [err |-> "role", store |-> store, roles |-> roles]
  ELSE [err |-> "none", store |-> store,
        roles |-> IF f = "remove" THEN roles ELSE roles \ {id}]

\* StatusReply with the test against the clock ahead of the lifetime test
StatusReply_ClockFirst(row, t) ==
  IF row = NoRow \/ row.vip_until = 0 THEN "noVip"
  ELSE IF row.vip_until > t THEN "active"
  ELSE IF row.vip_until >= LIFETIME_UNTIL THEN "lifetime"
  ELSE "expired"

\* The status command's reply for the row of a member at time t
StatusReply(row, t) ==
  IF row = NoRow \/ row.vip_until = 0 THEN "noVip"
  ELSE IF row.vip_until >= LIFETIME_UNTIL THEN "lifetime"
  ELSE IF row.vip_until > t THEN "active"
  ELSE "expired"

\* --------------------------------------------------------------- the state
VARIABLES
  now,                \* Date.now()
  sheet,              \* the rows getSheetRows returns
  onPlatform,         \* the members guild.members.fetch finds
  roles,              \* the members holding the VIP role
  joinedAt,           \* member.joinedTimestamp, 0 when unknown
  store,              \* table vip_users: a row or NoRow per member id
  jh,                 \* guildMemberAdd handlers in flight, per member
  cleanup,            \* the hourly cleanup job: where it is, its snapshot
  rejecting,          \* the platform rejects role removals for the time being
  syncRunning,        \* the single-flight flag
  pc,                 \* where each invocation of syncFromSheetOptimised is
  eligibility,        \* its eligibility map
  dbRows,             \* its snapshot of vip_users
  idx,                \* its position in the loop of its phase
  lifetimeEnsured,
  lifetimeDowngraded,
  expiredRemoved,
  returned,           \* what the entry point returned or threw last
  hist                \* the state the running (or last) pass started from

vars ==
  << now, sheet, onPlatform, roles, joinedAt, store, jh, cleanup, rejecting,
     syncRunning, pc,
     eligibility, dbRows, idx, lifetimeEnsured, lifetimeDowngraded,
     expiredRemoved, returned, hist >>

platformVars ==
  << sheet, onPlatform, roles, joinedAt, store, jh, cleanup, rejecting >>

localVars ==
  << eligibility, dbRows, idx, lifetimeEnsured, lifetimeDowngraded,
     expiredRemoved >>

\* The invocations of syncFromSheetOptimised in flight, whoever the caller
\* is: the ready handler, the 5-minute cron job or the reactivate command
Triggers == 1..MaxInFlight

Running(t) == pc[t] \in {"roster", "snapshot", "grant", "downgrade", "expiry"}

NoReturn == [kind |-> "none"]

NoHist == [none |-> TRUE]

CleanupIdle == [pc |-> "idle", rows |-> << >>, idx |-> 0]

\* The rows db.sqlite can hold when the bot starts: none, the rows of an
\* older install (the migration adds trial_until and leaves it NULL), and
\* the rows the join handler and earlier passes write
StartRows ==
  {NoRow, Row(2, 0), Row(LIFETIME_UNTIL, 0)}
    \cup {Row(t, t) : t \in 1..3}
    \cup {Row(LIFETIME_UNTIL, t) : t \in 1..3}
    \cup {Row(0, t) : t \in 1..3}

\* The bot starts on any roster, membership, role assignment and store
Init ==
  /\ now = 1
  /\ sheet \in Sheets
  /\ onPlatform \in SUBSET Users
  /\ roles \in SUBSET onPlatform
  /\ store \in [Users -> StartRows]
  /\ joinedAt \in [Users -> {0, 1}]
  /\ \A m \in Users :
       /\ m \notin onPlatform => joinedAt[m] = 0
       \* the join time is read for a member without a row or without a
       \* trial_until only: an unknown one is enumerated for a missing row
       /\ (m \in onPlatform /\ store[m] # NoRow) => joinedAt[m] = 1
  /\ jh = [m \in Users |-> [pc |-> "idle", trialUntil |-> 0]]
  /\ cleanup = CleanupIdle
  /\ rejecting = FALSE
  /\ syncRunning = FALSE
  /\ pc = [t \in Triggers |-> "idle"]
  /\ eligibility = [t \in Triggers |-> << >>]
  /\ dbRows = [t \in Triggers |-> << >>]
  /\ idx = [t \in Triggers |-> 0]
  /\ lifetimeEnsured = [t \in Triggers |-> 0]
  /\ lifetimeDowngraded = [t \in Triggers |-> 0]
  /\ expiredRemoved = [t \in Triggers |-> 0]
  /\ returned = NoReturn
  /\ hist = NoHist

\* ------------------------------------------------- the reconciliation pass
\* lifetimeInDb with > for >=
lifetimeInDb_Strict(rows) ==
  LET sel == SelectSeq(rows, LAMBDA r : r.vip_until > LIFETIME_UNTIL)
  IN  [i \in 1..Len(sel) |-> sel[i].user_id]

\* new Set(dbRows.filter(vip_until >= LIFETIME_UNTIL).map(user_id)), in
\* iteration order
lifetimeInDb(rows) ==
  LET sel == SelectSeq(rows, LAMBDA r : r.vip_until >= LIFETIME_UNTIL)
  IN  [i \in 1..Len(sel) |-> sel[i].user_id]

\* the row filter of the expiry loop at time t
ExpiredRow(r, t) ==
  r.vip_until # 0 /\ r.vip_until < LIFETIME_UNTIL /\ ~(r.vip_until > t)

\* The loops run without awaiting up to the next fetchMemberSafe: the next
\* entry, from entry i of a phase on, that one of the loops does not skip,
\* or "return" when the three loops are through.
RECURSIVE NextWork(_, _, _, _, _)
NextWork(phase, i, elig, rows, t) ==
  IF phase = "grant"
  THEN IF i > Len(elig) THEN NextWork("downgrade", 1, elig, rows, t)
       ELSE IF elig[i].approved THEN [pc |-> "grant", idx |-> i]
       ELSE NextWork("grant", i + 1, elig, rows, t)
  ELSE IF phase = "downgrade"
  THEN IF i > Len(lifetimeInDb(rows)) THEN NextWork("expiry", 1, elig, rows, t)
       ELSE IF ~MapApproved(elig, lifetimeInDb(rows)[i])
            THEN [pc |-> "downgrade", idx |-> i]
       ELSE NextWork("downgrade", i + 1, elig, rows, t)
  ELSE IF i > Len(rows) THEN [pc |-> "return", idx |-> 0]
       ELSE IF ExpiredRow(rows[i], t) THEN [pc |-> "expiry", idx |-> i]
       ELSE NextWork("expiry", i + 1, elig, rows, t)

ResetLocals(t) ==
  /\ eligibility' = [eligibility EXCEPT ![t] = << >>]
  /\ dbRows' = [dbRows EXCEPT ![t] = << >>]
  /\ idx' = [idx EXCEPT ![t] = 0]
  /\ lifetimeEnsured' = [lifetimeEnsured EXCEPT ![t] = 0]
  /\ lifetimeDowngraded' = [lifetimeDowngraded EXCEPT ![t] = 0]
  /\ expiredRemoved' = [expiredRemoved EXCEPT ![t] = 0]

Ended(how) == IF hist = NoHist THEN NoHist ELSE [hist EXCEPT !.ended = how]

\* Throw without the finally block: the flag is cleared on success only
Throw_NoFinally(t, err) ==
  /\ pc' = [pc EXCEPT ![t] = "idle"]
  /\ syncRunning' = syncRunning
  /\ returned' = [kind |-> "error", by |-> t, err |-> err]
  /\ hist' = Ended("error")
  /\ ResetLocals(t)

\* an error leaves the pass: the finally block clears the flag, the caller
\* catches and logs the error
Throw(t, err) ==
  /\ pc' = [pc EXCEPT ![t] = "idle"]
  /\ syncRunning' = FALSE
  /\ returned' = [kind |-> "error", by |-> t, err |-> err]
  /\ hist' = Ended("error")
  /\ ResetLocals(t)

\* the pass goes on to the entry at pos, or returns its summary through the
\* finally block when pos is "return"
Continue(t, elig, rows, pos, le, ld, er) ==
  IF pos.pc = "return"
  THEN /\ pc' = [pc EXCEPT ![t] = "idle"]
       /\ syncRunning' = FALSE
       /\ returned' = [kind |-> "summary", by |-> t, lifetimeEnsured |-> le,
                       lifetimeDowngraded |-> ld, expiredRemoved |-> er,
                       totalSheet |-> Len(elig)]
       /\ hist' = Ended("summary")
       /\ ResetLocals(t)
  ELSE /\ pc' = [pc EXCEPT ![t] = pos.pc]
       /\ idx' = [idx EXCEPT ![t] = pos.idx]
       /\ eligibility' = [eligibility EXCEPT ![t] = elig]
       /\ dbRows' = [dbRows EXCEPT ![t] = rows]
       /\ lifetimeEnsured' = [lifetimeEnsured EXCEPT ![t] = le]
       /\ lifetimeDowngraded' = [lifetimeDowngraded EXCEPT ![t] = ld]
       /\ expiredRemoved' = [expiredRemoved EXCEPT ![t] = er]
       /\ UNCHANGED << syncRunning, returned, hist >>

\* Invoke without the test of the flag
Invoke_NoGuard(t) ==
  /\ pc[t] = "idle"
  /\ \A u \in 1..(t - 1) : pc[u] # "idle"
  /\ syncRunning' = TRUE
  /\ pc' = [pc EXCEPT ![t] = "roster"]
  /\ hist' = [store0 |-> store, roles0 |-> roles, now0 |-> now,
              afterQuietPass |-> hist # NoHist /\ hist.ended = "summary",
              ended |-> "running"]
  /\ UNCHANGED << returned, now, platformVars, localVars >>

\* syncFromSheetOptimised is called: skipped when the flag is set, else the
\* flag is taken and the pass awaits the guild
Invoke(t) ==
  /\ pc[t] = "idle"
  /\ \A u \in 1..(t - 1) : pc[u] # "idle"
  /\ IF syncRunning
     THEN /\ returned' = [kind |-> "skipped", by |-> t]
          /\ pc' = [pc EXCEPT ![t] = "idle"]
          /\ UNCHANGED << syncRunning, hist >>
     ELSE /\ syncRunning' = TRUE
          /\ pc' = [pc EXCEPT ![t] = "roster"]
          /\ hist' = [store0 |-> store, roles0 |-> roles, now0 |-> now,
                      afterQuietPass |-> hist # NoHist /\ hist.ended = "summary",
                      ended |-> "running"]
          /\ UNCHANGED returned
  /\ UNCHANGED << now, platformVars, localVars >>

\* client.guilds.fetch, then getEligibilityMap
ReadRoster(t, f) ==
  /\ pc[t] = "roster"
  /\ f \in {"none", "guild", "sheet"}
  /\ IF f # "none" THEN Throw(t, "transport")
     ELSE IF EligibilityOf[sheet].err # "none"
     THEN Throw(t, EligibilityOf[sheet].err)
     ELSE /\ pc' = [pc EXCEPT ![t] = "snapshot"]
          /\ eligibility' = [eligibility EXCEPT ![t] = EligibilityOf[sheet].map]
          /\ UNCHANGED << syncRunning, returned, hist, dbRows, idx,
                          lifetimeEnsured, lifetimeDowngraded, expiredRemoved >>
  /\ UNCHANGED << now, platformVars >>

\* the orders in which SELECT without ORDER BY can list the rows
RowOrders ==
  LET ids == {m \in Users : store[m] # NoRow}
      n   == Cardinality(ids)
  IN  { [i \in 1..n |-> [user_id |-> o[i], vip_until |-> store[o[i]].vip_until,
                          trial_until |-> store[o[i]].trial_until]] :
          o \in {q \in [1..n -> ids] : \A i, j \in 1..n : q[i] = q[j] => i = j} }

\* dbAll(SELECT user_id, vip_until, trial_until FROM vip_users)
ReadStore(t, f) ==
  /\ pc[t] = "snapshot"
  /\ f \in {"none", "dbAll"}
  /\ IF f # "none" THEN Throw(t, "store")
     ELSE \E rows \in RowOrders :
            Continue(t, eligibility[t], rows,
                     NextWork("grant", 1, eligibility[t], rows, now), 0, 0, 0)
  /\ UNCHANGED << now, platformVars >>

\* what a member operation r leaves behind, and how the pass goes on
Outcome(t, r, from, le, ld, er) ==
  /\ store' = r.store
  /\ roles' = r.roles
  /\ IF r.err # "none" THEN Throw(t, r.err)
     ELSE Continue(t, eligibility[t], dbRows[t],
                   NextWork(from, idx[t] + 1, eligibility[t], dbRows[t], now),
                   le, ld, er)
  /\ UNCHANGED << now, sheet, onPlatform, joinedAt, jh, cleanup, rejecting >>

Untouched == [err |-> "none", store |-> store, roles |-> roles]

\* GrantIter counting the entry before it looks at the member
GrantIter_CountsMissing(t, f) ==
  /\ pc[t] = "grant"
  /\ f \in {"none", "role", "add", "get", "ensureWrite", "write"}
  /\ LET userId == eligibility[t][idx[t]].id
     IN  IF userId \notin onPlatform
         THEN /\ f = "none"
              /\ Outcome(t, Untouched, "grant", lifetimeEnsured[t] + 1,
                         lifetimeDowngraded[t], expiredRemoved[t])
         ELSE Outcome(t, setVipLifetime(store, roles, userId, joinedAt[userId], now, f),
                      "grant", lifetimeEnsured[t] + 1,
                      lifetimeDowngraded[t], expiredRemoved[t])

\* 1) one approved entry of the eligibility map
GrantIter(t, f) ==
  /\ pc[t] = "grant"
  /\ f \in {"none", "role", "add", "get", "ensureWrite", "write"}
  /\ LET userId == eligibility[t][idx[t]].id
     IN  IF userId \notin onPlatform
         THEN /\ f = "none"
              /\ Outcome(t, Untouched, "grant", lifetimeEnsured[t],
                         lifetimeDowngraded[t], expiredRemoved[t])
         ELSE Outcome(t, setVipLifetime(store, roles, userId, joinedAt[userId], now, f),
                      "grant", lifetimeEnsured[t] + 1,
                      lifetimeDowngraded[t], expiredRemoved[t])

\* DowngradeIter taking its member from dbRows instead of lifetimeInDb
DowngradeIter_WrongList(t, f) ==
  /\ pc[t] = "downgrade"
  /\ f \in Faults
  /\ LET userId == dbRows[t][idx[t]].user_id
     IN  IF userId \notin onPlatform
         THEN /\ f = "none"
              /\ Outcome(t, Untouched, "downgrade", lifetimeEnsured[t],
                         lifetimeDowngraded[t], expiredRemoved[t])
         ELSE Outcome(t, setVipToTrialRemainingOrRemove(store, roles, userId,
                                                      joinedAt[userId], now, f),
                      "downgrade", lifetimeEnsured[t],
                      lifetimeDowngraded[t] + 1, expiredRemoved[t])

\* 2) one member of lifetimeInDb that the roster does not approve
DowngradeIter(t, f) ==
  /\ pc[t] = "downgrade"
  /\ f \in Faults
  /\ LET userId == lifetimeInDb(dbRows[t])[idx[t]]
     IN  IF userId \notin onPlatform
         THEN /\ f = "none"
              /\ Outcome(t, Untouched, "downgrade", lifetimeEnsured[t],
                         lifetimeDowngraded[t], expiredRemoved[t])
         ELSE Outcome(t, setVipToTrialRemainingOrRemove(store, roles, userId,
                                                      joinedAt[userId], now, f),
                      "downgrade", lifetimeEnsured[t],
                      lifetimeDowngraded[t] + 1, expiredRemoved[t])

\* 3) one row of the snapshot whose expiry is in the past
ExpiryIter(t, f) ==
  /\ pc[t] = "expiry"
  /\ f \in {"none", "role", "remove"}
  /\ LET userId == dbRows[t][idx[t]].user_id
     IN  IF userId \notin onPlatform
         THEN /\ f = "none"
              /\ Outcome(t, Untouched, "expiry", lifetimeEnsured[t],
                         lifetimeDowngraded[t], expiredRemoved[t])
         ELSE Outcome(t, removeVipIfHas(store, roles, userId, f),
                      "expiry", lifetimeEnsured[t],
                      lifetimeDowngraded[t], expiredRemoved[t] + 1)

\* ------------------------------------------------------------- environment
\* The history kept for the running or last pass is dropped when anything
\* but that pass changes the roster, the platform or the store.
Forget == hist' = NoHist /\ returned' = NoReturn

passVars == << syncRunning, pc, localVars >>

Tick ==
  /\ now < MaxTime
  /\ now' = now + 1
  /\ UNCHANGED << platformVars, passVars, returned, hist >>

\* the roster is edited
SetSheet(s) ==
  /\ s \in Sheets /\ s # sheet
  /\ sheet' = s
  /\ Forget
  /\ UNCHANGED << now, onPlatform, roles, joinedAt, store, jh, cleanup, rejecting,
                  passVars >>

\* a member leaves the guild
Leave(m) ==
  /\ m \in onPlatform
  /\ onPlatform' = onPlatform \ {m}
  /\ roles' = roles \ {m}
  /\ joinedAt' = [joinedAt EXCEPT ![m] = 0]
  /\ Forget
  /\ UNCHANGED << now, sheet, store, jh, cleanup, rejecting,
                  passVars >>

\* a moderator gives or takes the VIP role by hand
RoleEdit(m) ==
  /\ m \in onPlatform
  /\ roles' = IF m \in roles THEN roles \ {m} ELSE roles \cup {m}
  /\ Forget
  /\ UNCHANGED << now, sheet, onPlatform, joinedAt, store, jh, cleanup, rejecting,
                  passVars >>

\* guildMemberAdd with grantTrialOnJoin run to its end
Joined(m) ==
  /\ m \notin onPlatform
  /\ jh[m].pc = "idle"
  /\ onPlatform' = onPlatform \cup {m}
  /\ joinedAt' = [joinedAt EXCEPT ![m] = now]
  /\ roles' = roles \cup {m}
  /\ store' = Upsert(store, m, now + ONE_MONTH, now + ONE_MONTH)
  /\ Forget
  /\ UNCHANGED << now, sheet, jh, cleanup, rejecting, passVars >>

\* guildMemberAdd: the member is in the guild and grantTrialOnJoin has read
\* the clock
MemberJoin(m) ==
  /\ m \notin onPlatform
  /\ jh[m].pc = "idle"
  /\ onPlatform' = onPlatform \cup {m}
  /\ joinedAt' = [joinedAt EXCEPT ![m] = now]
  /\ jh' = [jh EXCEPT ![m] = [pc |-> "add", trialUntil |-> now + ONE_MONTH]]
  /\ Forget
  /\ UNCHANGED << now, sheet, roles, store, cleanup, rejecting, passVars >>

\* grantTrialOnJoin: member.roles.add(role); the platform rejects it for a
\* member who has left, and the handler's catch ends the handler
JoinAdd(m, f) ==
  /\ jh[m].pc = "add"
  /\ f \in {"none", "role", "add"}
  /\ IF f = "none" /\ m \in onPlatform
     THEN /\ roles' = roles \cup {m}
          /\ jh' = [jh EXCEPT ![m].pc = "store"]
     ELSE /\ roles' = roles
          /\ jh' = [jh EXCEPT ![m] = [pc |-> "idle", trialUntil |-> 0]]
  /\ Forget
  /\ UNCHANGED << now, sheet, onPlatform, joinedAt, store, cleanup, rejecting,
                  passVars >>

\* JoinStore reading the clock again for vip_until
JoinStore_ClockReread(m, f) ==
  /\ jh[m].pc = "store"
  /\ f \in {"none", "write"}
  /\ store' = IF f = "none"
              THEN Upsert(store, m, now + ONE_MONTH, jh[m].trialUntil)
              ELSE store
  /\ jh' = [jh EXCEPT ![m] = [pc |-> "idle", trialUntil |-> 0]]
  /\ Forget
  /\ UNCHANGED << now, sheet, onPlatform, roles, joinedAt, cleanup, rejecting,
                  passVars >>

\* grantTrialOnJoin: INSERT OR REPLACE (vip_until, trial_until) = trialUntil
JoinStore(m, f) ==
  /\ jh[m].pc = "store"
  /\ f \in {"none", "write"}
  /\ store' = IF f = "none"
              THEN Upsert(store, m, jh[m].trialUntil, jh[m].trialUntil)
              ELSE store
  /\ jh' = [jh EXCEPT ![m] = [pc |-> "idle", trialUntil |-> 0]]
  /\ Forget
  /\ UNCHANGED << now, sheet, onPlatform, roles, joinedAt, cleanup, rejecting,
                  passVars >>

\* The hourly cleanup job fires and awaits the guild.  It does not look at
\* syncRunning.
CleanupStart ==
  /\ cleanup.pc = "idle"
  /\ cleanup' = [pc |-> "snapshot", rows |-> << >>, idx |-> 0]
  /\ UNCHANGED << now, sheet, onPlatform, roles, joinedAt, store, jh, rejecting,
                  passVars, returned, hist >>

\* the cleanup job from entry i of its snapshot on: at the next row its
\* filter does not skip, or through
CleanupAt(rows, i, t) ==
  LET pos == NextWork("expiry", i, << >>, rows, t)
  IN  IF pos.pc = "return" THEN CleanupIdle
      ELSE [pc |-> "expiry", rows |-> rows, idx |-> pos.idx]

\* dbAll(SELECT user_id, vip_until FROM vip_users); a failed read ends the job
\* in its catch
CleanupRead(f) ==
  /\ cleanup.pc = "snapshot"
  /\ f \in {"none", "dbAll"}
  /\ IF f # "none" THEN cleanup' = CleanupIdle
     ELSE \E rows \in RowOrders : cleanup' = CleanupAt(rows, 1, now)
  /\ UNCHANGED << now, sheet, onPlatform, roles, joinedAt, store, jh, rejecting,
                  passVars, returned, hist >>

\* one row of the job's snapshot whose expiry is in the past:
\* fetchMemberSafe, then removeVipIfHas
CleanupIter(f) ==
  /\ cleanup.pc = "expiry"
  /\ f \in {"none", "role", "remove"}
  /\ LET userId == cleanup.rows[cleanup.idx].user_id
         r == IF userId \notin onPlatform THEN Untouched
              ELSE removeVipIfHas(store, roles, userId, f)
     IN  /\ userId \notin onPlatform => f = "none"
         /\ roles' = r.roles
         /\ cleanup' = IF r.err # "none" THEN CleanupIdle
                       ELSE CleanupAt(cleanup.rows, cleanup.idx + 1, now)
         /\ IF roles' # roles THEN Forget ELSE UNCHANGED << returned, hist >>
  /\ UNCHANGED << now, sheet, onPlatform, joinedAt, store, jh, rejecting,
                  passVars >>

\* the reply of the status command: which of the four, and the timestamp of
\* "active until" (the stored vip_until, shown in seconds)
StatusText(row, t) ==
  [reply |-> StatusReply(row, t),
   until |-> IF StatusReply(row, t) = "active" THEN row.vip_until ELSE 0]

\* interactionCreate, command status, by guild member m: one dbGet, whose
\* failure is caught and read as "no row", and the reply
Status(m, f) ==
  /\ m \in onPlatform
  /\ f \in {"none", "get"}
  /\ LET row == IF f = "get" THEN NoRow ELSE store[m]
     IN  returned' = [kind |-> "status", by |-> m, row |-> store[m], at |-> now,
                      reply |-> StatusText(row, now).reply,
                      until |-> StatusText(row, now).until]
  /\ UNCHANGED << now, platformVars, passVars, hist >>

\* the platform accepts role removals again
Recover ==
  /\ rejecting
  /\ rejecting' = FALSE
  /\ UNCHANGED << now, sheet, onPlatform, roles, joinedAt, store, jh, cleanup,
                  passVars, returned, hist >>

\* ---------------------------------------------------------- specifications
\* Spec: every collaborator call succeeds; the roster, the membership and the
\* roles are edited between passes, the clock ticks at any time.
PassStep(t) ==
  \/ Invoke(t)
  \/ ReadRoster(t, "none")
  \/ ReadStore(t, "none")
  \/ GrantIter(t, "none")
  \/ DowngradeIter(t, "none")
  \/ ExpiryIter(t, "none")

EnvStep ==
  \/ \E s \in Sheets : SetSheet(s)
  \/ \E m \in Users : Leave(m)
  \/ \E m \in Users : RoleEdit(m)
  \/ \E m \in Users : Joined(m)

Next ==
  \/ \E t \in Triggers : PassStep(t)
  \/ Tick
  \/ (~syncRunning /\ EnvStep)

Spec == Init /\ [][Next]_vars

\* SpecFault: every collaborator call of a pass can fail: the guild or
\* roster fetch, the store read, the role lookup, a role grant or removal, a
\* store read or write of a member operation.  Both members are in the
\* guild; the roster is edited between passes.
PassRun(t) ==
  \/ \E f \in {"none", "guild", "sheet"} : ReadRoster(t, f)
  \/ \E f \in {"none", "dbAll"} : ReadStore(t, f)
  \/ \E f \in Faults : GrantIter(t, f)
  \/ \E f \in Faults : DowngradeIter(t, f)
  \/ \E f \in Faults : ExpiryIter(t, f)

InitFault ==
  /\ Init
  /\ onPlatform = Users
  /\ \A m \in Users :
       store[m] \in {NoRow, Row(1, 1), Row(LIFETIME_UNTIL, 1), Row(LIFETIME_UNTIL, 2)}

NextFault ==
  \/ \E t \in Triggers : Invoke(t)
  \/ \E t \in Triggers : PassRun(t)
  \/ Tick
  \/ (~syncRunning /\ \E s \in Sheets : SetSheet(s))

SpecFault == InitFault /\ [][NextFault]_vars

\* SpecLive: passes with failing collaborators on a roster that stays as it
\* is, where every awaited call of a running pass returns or raises, so that
\* a running pass takes its next step.
InitLive ==
  /\ InitFault
  /\ sheet \in {SheetANotB, SheetNoApprovalColumn}

NextLive ==
  \/ \E t \in Triggers : Invoke(t)
  \/ \E t \in Triggers : PassRun(t)
  \/ Tick

SpecLive ==
  InitLive /\ [][NextLive]_vars /\ WF_vars(\E t \in Triggers : PassRun(t))

\* SpecJoin: the bot starts on an empty store and an empty guild.  Members
\* join and leave, the join handler runs step by step and the roster is
\* edited, all of it at any time, also while a pass is running.  Every
\* collaborator call succeeds.
JoinSheets == {SheetANotB, SheetBOnly}

InitJoin ==
  /\ Init
  /\ sheet \in JoinSheets
  /\ onPlatform = {}
  /\ store = [m \in Users |-> NoRow]

JoinStep(m) ==
  \/ MemberJoin(m)
  \/ JoinAdd(m, "none")
  \/ JoinStore(m, "none")

CleanupStep ==
  \/ CleanupStart
  \/ CleanupRead("none")
  \/ CleanupIter("none")

NextJoin ==
  \/ \E t \in Triggers : PassStep(t)
  \/ Tick
  \/ \E s \in JoinSheets : SetSheet(s)
  \/ \E m \in Users : Leave(m)
  \/ \E m \in Users : JoinStep(m)

SpecJoin == InitJoin /\ [][NextJoin]_vars

\* SpecCleanup: the hourly cleanup job runs step by step at any time, also
\* while a pass is running and while members join (the join handler run to
\* its end) and leave and the roster is edited.
NextCleanup ==
  \/ \E t \in Triggers : PassStep(t)
  \/ Tick
  \/ \E s \in JoinSheets : SetSheet(s)
  \/ \E m \in Users : Leave(m)
  \/ \E m \in Users : Joined(m)
  \/ CleanupStep

SpecCleanup == InitJoin /\ [][NextCleanup]_vars

\* SpecStatus: guild members ask for their status at any time, also while a
\* pass is running; the bot starts on any store.
InitStatus ==
  /\ Init
  /\ sheet = SheetANotB
  /\ onPlatform = Users
  /\ roles = Users

NextStatus ==
  \/ \E t \in Triggers : PassStep(t)
  \/ Tick
  \/ \E m \in Users : Status(m, "none")

SpecStatus == InitStatus /\ [][NextStatus]_vars

\* SpecRoster: getEligibilityMap on the rosters of a valid header row and
\* one to MaxRows data rows, whose cells are padded, empty, missing, in
\* either case.
HeaderSwapped == << S_lifetime_vip, << "n","a","m","e" >>, S_discord_id >>

IdCells == {IdA, << " ","2"," " >>, << >>, << " " >>}

ApprovalCells ==
  {S_YES, S_yes_padded, S_NO, << >>, << "Y","E","S","S" >>}

\* the data rows under HeaderPlain and HeaderMixed, one without its
\* approval cell included
RowsPlain ==
  {<< i, a >> : i \in IdCells, a \in ApprovalCells} \cup {<< i >> : i \in IdCells}

\* the data rows under HeaderSwapped
RowsSwapped ==
  {<< a, << "x" >>, i >> : i \in IdCells, a \in ApprovalCells}

DataOf(rowSet) ==
  UNION {[1..n -> rowSet] : n \in 1..MaxRows}

Rosters ==
  {<< h >> \o d : h \in {HeaderPlain, HeaderMixed}, d \in DataOf(RowsPlain)}
    \cup {<< HeaderSwapped >> \o d : d \in DataOf(RowsSwapped)}

InitRoster ==
  /\ sheet \in Rosters
  /\ now = 1
  /\ onPlatform = {}
  /\ roles = {}
  /\ store = [m \in Users |-> NoRow]
  /\ joinedAt = [m \in Users |-> 0]
  /\ jh = [m \in Users |-> [pc |-> "idle", trialUntil |-> 0]]
  /\ cleanup = CleanupIdle
  /\ rejecting = FALSE
  /\ syncRunning = FALSE
  /\ pc = [t \in Triggers |-> "idle"]
  /\ eligibility = [t \in Triggers |-> << >>]
  /\ dbRows = [t \in Triggers |-> << >>]
  /\ idx = [t \in Triggers |-> 0]
  /\ lifetimeEnsured = [t \in Triggers |-> 0]
  /\ lifetimeDowngraded = [t \in Triggers |-> 0]
  /\ expiredRemoved = [t \in Triggers |-> 0]
  /\ returned = NoReturn
  /\ hist = NoHist

\* getEligibilityMap() is called and returns or throws
ParseRoster ==
  /\ returned = NoReturn
  /\ returned' = [kind |-> "map", err |-> getEligibilityMap(sheet).err,
                  map |-> getEligibilityMap(sheet).map]
  /\ UNCHANGED << now, platformVars, passVars, hist >>

SpecRoster == InitRoster /\ [][ParseRoster]_vars

\* SpecEnsure: ensureTrialRecordFor is called again and again for guild
\* members, on every kind of prior row: none, one without trial_until
\* (vip_until NULL or 0, expired, running, lifetime), one with it.
EnsureRows ==
  {NoRow}
    \cup {Row(v, 0) : v \in {0, 1, 2, 3, LIFETIME_UNTIL}}
    \cup {Row(v, t) : v \in {0, LIFETIME_UNTIL}, t \in 1..3}
    \cup {Row(t, t) : t \in 1..3}

InitEnsure ==
  /\ sheet = SheetANotB
  /\ now = 1
  /\ onPlatform = Users
  /\ roles = {}
  /\ store \in [Users -> EnsureRows]
  /\ joinedAt \in [Users -> {0, 1}]
  /\ jh = [m \in Users |-> [pc |-> "idle", trialUntil |-> 0]]
  /\ cleanup = CleanupIdle
  /\ rejecting = FALSE
  /\ syncRunning = FALSE
  /\ pc = [t \in Triggers |-> "idle"]
  /\ eligibility = [t \in Triggers |-> << >>]
  /\ dbRows = [t \in Triggers |-> << >>]
  /\ idx = [t \in Triggers |-> 0]
  /\ lifetimeEnsured = [t \in Triggers |-> 0]
  /\ lifetimeDowngraded = [t \in Triggers |-> 0]
  /\ expiredRemoved = [t \in Triggers |-> 0]
  /\ returned = NoReturn
  /\ hist = NoHist

\* ensureTrialRecordFor(member) is called and returns: what it returns, the
\* row it found, the row the first call of this run of calls found
EnsureCall(m) ==
  /\ m \in onPlatform
  /\ LET again == returned.kind = "ensure" /\ returned.by = m
         r     == ensureTrialRecordFor(store, m, joinedAt[m], now, "none")
     IN  /\ again => returned.calls < MaxCalls
         /\ store' = r.store
         /\ returned' = [kind |-> "ensure", by |-> m,
                         calls |-> IF again THEN returned.calls + 1 ELSE 1,
                         first |-> IF again THEN returned.first ELSE store[m],
                         before |-> store[m],
                         existing |-> r.existing]
  /\ UNCHANGED << now, sheet, onPlatform, roles, joinedAt, jh, cleanup,
                  rejecting, passVars, hist >>

NextEnsure ==
  \/ \E m \in Users : EnsureCall(m)
  \/ Tick

SpecEnsure == InitEnsure /\ [][NextEnsure]_vars

\* SpecHeal: the platform rejects role removals until it recovers, and
\* accepts them from then on; the roster and the membership stay as they
\* are.  Every member holds the role when the bot starts, with a lifetime
\* record or a trial that is running or has just run out.  The 5-minute
\* timer keeps calling syncFromSheetOptimised and every awaited call of a
\* running pass returns.
InitHeal ==
  /\ sheet \in {SheetANotB, SheetBOnly}
  /\ now = 1
  /\ onPlatform = Users
  /\ roles = Users
  /\ store \in [Users -> {Row(LIFETIME_UNTIL, 1), Row(LIFETIME_UNTIL, 2),
                          Row(1, 1), Row(2, 2)}]
  /\ joinedAt = [m \in Users |-> 1]
  /\ jh = [m \in Users |-> [pc |-> "idle", trialUntil |-> 0]]
  /\ cleanup = CleanupIdle
  /\ rejecting = TRUE
  /\ syncRunning = FALSE
  /\ pc = [t \in Triggers |-> "idle"]
  /\ eligibility = [t \in Triggers |-> << >>]
  /\ dbRows = [t \in Triggers |-> << >>]
  /\ idx = [t \in Triggers |-> 0]
  /\ lifetimeEnsured = [t \in Triggers |-> 0]
  /\ lifetimeDowngraded = [t \in Triggers |-> 0]
  /\ expiredRemoved = [t \in Triggers |-> 0]
  /\ returned = NoReturn
  /\ hist = NoHist

\* what a role removal meets for the time being
RemovalFault == IF rejecting THEN "remove" ELSE "none"

PassHeal(t) ==
  \/ ReadRoster(t, "none")
  \/ ReadStore(t, "none")
  \/ GrantIter(t, "none")
  \/ DowngradeIter(t, RemovalFault)
  \/ ExpiryIter(t, RemovalFault)

NextHeal ==
  \/ \E t \in Triggers : Invoke(t)
  \/ \E t \in Triggers : PassHeal(t)
  \/ Tick
  \/ Recover

SpecHeal ==
  /\ InitHeal
  /\ [][NextHeal]_vars
  /\ WF_vars(\E t \in Triggers : Invoke(t))
  /\ WF_vars(\E t \in Triggers : PassHeal(t))

\* ------------------------------------------------------------------ claims
NoPassRunning == \A t \in Triggers : ~Running(t)

\* a step in which an invocation arrives while the flag is set
SkippedInvocation(t) == syncRunning /\ Invoke(t)

\* C1: at most one pass is executing at any moment, and an invocation that
\* arrives while a pass is running returns a result marked skipped, starts no
\* pass and changes neither the store nor the roles.
C1_SingleFlight ==
  /\ [](Cardinality({t \in Triggers : Running(t)}) <= 1)
  /\ [][\A t \in Triggers :
          SkippedInvocation(t) =>
            /\ returned' = [kind |-> "skipped", by |-> t]
            /\ ~Running(t)'
            /\ store' = store /\ roles' = roles]_vars

\* a pass is running and an invocation that arrived meanwhile was skipped
C1_Witness ==
  /\ \E t \in Triggers : Running(t) /\ pc[t] # "roster"
  /\ returned.kind = "skipped"

\* C2: a pass that has taken the flag clears it in the end, however the pass
\* ends, and the flag is clear whenever no pass is running, so that the
\* invocation after a pass is not answered with skipped.
C2_FlagReleased ==
  /\ (syncRunning ~> ~syncRunning)
  /\ [](NoPassRunning => ~syncRunning)

\* a pass has ended in an error and has left the flag clear
C2_Witness ==
  /\ returned.kind = "error" /\ returned.err \in {"mutation", "role", "store"}
  /\ ~syncRunning

\* The last pass returned its summary, and since it started nothing but
\* that pass has changed the roster, the membership, the roles or the store.
PassDone == hist # NoHist /\ hist.ended = "summary"

\* the roster snapshot of that pass
Snapshot == EligibilityOf[sheet].map

Approved(m) == MapApproved(Snapshot, m)

\* the store as the pass found it
Before(m) == hist.store0[m]

LifetimeBefore(m) == Before(m) # NoRow /\ Before(m).vip_until >= LIFETIME_UNTIL

LifetimeNow(m) == store[m] # NoRow /\ store[m].vip_until >= LIFETIME_UNTIL

\* The statement of C3 as claimed: after a completed pass the stored
\* vipUntil of every roster id is >= LIFETIME iff the roster approves the id.
C3_AsClaimed ==
  PassDone =>
    \A m \in Users : MapHas(Snapshot, m) => (LifetimeNow(m) <=> Approved(m))

\* C3: after a completed pass, for every roster id that is a member of the
\* guild, the stored vipUntil is >= LIFETIME iff the roster approves the id.
C3_LifetimeIffApproved ==
  PassDone =>
    \A m \in Users :
      (MapHas(Snapshot, m) /\ m \in onPlatform) => (LifetimeNow(m) <=> Approved(m))

\* a completed pass has promoted one roster member and demoted another
C3_Witness ==
  /\ PassDone
  /\ \E m \in onPlatform : Approved(m) /\ ~LifetimeBefore(m) /\ LifetimeNow(m)
  /\ \E m \in onPlatform :
       MapHas(Snapshot, m) /\ ~Approved(m) /\ LifetimeBefore(m) /\ ~LifetimeNow(m)

\* the trial_until the grant phase may backfill for a member without one:
\* the join time plus 30 days, the time of the grant when it is unknown
BackfillFor(m) ==
  IF joinedAt[m] # 0 THEN {joinedAt[m] + ONE_MONTH}
  ELSE {t + ONE_MONTH : t \in hist.now0..now}

\* The statement of C4: after a completed pass every guild member the
\* roster approves holds the role and has vipUntil = LIFETIME, with the
\* trialUntil it had, or a backfilled one if it had none.
C4_ApprovedHoldsRole ==
  PassDone =>
    \A m \in onPlatform :
      Approved(m) =>
        /\ m \in roles
        /\ store[m] # NoRow
        /\ store[m].vip_until = LIFETIME_UNTIL
        /\ IF Before(m) # NoRow /\ Before(m).trial_until # 0
           THEN store[m].trial_until = Before(m).trial_until
           ELSE store[m].trial_until \in BackfillFor(m)

\* C5: a guild member whose stored vipUntil was >= LIFETIME when the pass
\* started, whom the roster does not approve and whose trialUntil is still
\* in the future, holds the role after the pass and has vipUntil = trialUntil.
C5_GraceDemotion ==
  PassDone =>
    \A m \in onPlatform :
      (LifetimeBefore(m) /\ ~Approved(m) /\ Before(m).trial_until > now) =>
        /\ m \in roles
        /\ store[m] = Row(Before(m).trial_until, Before(m).trial_until)

\* a completed pass has demoted a lifetime member without the role to the
\* trial that is not over
C5_Witness ==
  /\ PassDone
  /\ \E m \in onPlatform :
       /\ LifetimeBefore(m) /\ ~Approved(m) /\ Before(m).trial_until > now
       /\ m \notin hist.roles0
       /\ m \in roles /\ store[m].vip_until = Before(m).trial_until

\* The statement of C6 as claimed: a guild member whose stored vipUntil was
\* >= LIFETIME when the pass started, whom the roster does not approve and
\* whose trialUntil is not in the future, is without the role after the pass,
\* with vipUntil = 0 and the trialUntil it had.
C6_AsClaimed ==
  PassDone =>
    \A m \in onPlatform :
      (LifetimeBefore(m) /\ ~Approved(m) /\ ~(Before(m).trial_until > hist.now0)) =>
        /\ m \notin roles
        /\ store[m] = Row(0, Before(m).trial_until)

\* C6: the same for a member whose trialUntil is set (not zero) and not in
\* the future.
C6_Removed ==
  PassDone =>
    \A m \in onPlatform :
      (/\ LifetimeBefore(m) /\ ~Approved(m)
       /\ Before(m).trial_until # 0
       /\ ~(Before(m).trial_until > hist.now0)) =>
        /\ m \notin roles
        /\ store[m] = Row(0, Before(m).trial_until)

\* a completed pass has taken the role from a lifetime member whose trial
\* was over
C6_Witness ==
  /\ PassDone
  /\ \E m \in onPlatform :
       /\ LifetimeBefore(m) /\ ~Approved(m)
       /\ Before(m).trial_until # 0 /\ ~(Before(m).trial_until > hist.now0)
       /\ m \in hist.roles0
       /\ m \notin roles /\ store[m].vip_until = 0

\* the stored vipUntil was non-zero, below LIFETIME and in the past when the
\* pass started
ExpiredBefore(m) ==
  /\ Before(m) # NoRow
  /\ Before(m).vip_until # 0
  /\ Before(m).vip_until < LIFETIME_UNTIL
  /\ Before(m).vip_until <= hist.now0

\* The statement of C7 as claimed: every member whose stored vipUntil was
\* expired when the pass started is without the role after the pass, and the
\* status query reports the member expired.
C7_AsClaimed ==
  PassDone =>
    \A m \in Users :
      ExpiredBefore(m) =>
        m \notin roles /\ StatusReply(store[m], now) = "expired"

\* C7: the same for every member that the grant phase does not promote: one
\* the roster does not approve, or one who is not in the guild.
C7_Expiry ==
  PassDone =>
    \A m \in Users :
      (ExpiredBefore(m) /\ ~(Approved(m) /\ m \in onPlatform)) =>
        m \notin roles /\ StatusReply(store[m], now) = "expired"

\* a completed pass has taken the role from a member whose trial had expired
C7_Witness ==
  /\ PassDone
  /\ \E m \in onPlatform :
       /\ ExpiredBefore(m) /\ ~Approved(m)
       /\ m \in hist.roles0 /\ m \notin roles
       /\ StatusReply(store[m], now) = "expired"

\* the pass that has just completed followed a completed pass with no
\* change of the roster, the membership, the roles or the store in between
SecondRun == PassDone /\ hist.afterQuietPass /\ returned.kind = "summary"

\* The statement of C8 as claimed: the counts of the second of two passes in
\* succession are all zero.
C8_AsClaimed ==
  SecondRun =>
    /\ returned.lifetimeEnsured = 0
    /\ returned.lifetimeDowngraded = 0
    /\ returned.expiredRemoved = 0

\* C8: the second of two passes in succession downgrades nobody and leaves
\* the store as it was; lifetimeEnsured counts the approved members found in
\* the guild, in every pass.
C8_SecondRun ==
  SecondRun =>
    /\ returned.lifetimeDowngraded = 0
    /\ returned.lifetimeEnsured = Cardinality({m \in onPlatform : Approved(m)})
    /\ store = hist.store0

\* a second pass in succession that has counted an approved member again
C8_Witness == SecondRun /\ returned.lifetimeEnsured > 0

\* the header row of the roster lacks the identifier or the approval column
HeaderLacksColumn(rows) ==
  /\ Len(rows) >= 1
  /\ \/ \A i \in 1..Len(rows[1]) : trim(toLowerCase(rows[1][i])) # S_discord_id
     \/ \A i \in 1..Len(rows[1]) : trim(toLowerCase(rows[1][i])) # S_lifetime_vip

LacksColumn == [s \in Sheets |-> HeaderLacksColumn(s)]

PassEnded == hist # NoHist /\ hist.ended # "running"

UnchangedByPass == store = hist.store0 /\ roles = hist.roles0

C10_FailureIsolated ==
  ~(returned.kind = "error" /\ returned.err = "mutation")

\* The statement of C11: a stored trialUntil that is non-zero never changes,
\* whatever passes and join handlers run, a member who leaves and joins again
\* included.
C11_TrialImmutable ==
  [][\A m \in Users :
       (store[m] # NoRow /\ store[m].trial_until # 0) =>
         (store'[m] # NoRow /\ store'[m].trial_until = store[m].trial_until)]_vars

\* the step in which invocation t returns its summary
Completes(t) ==
  /\ Running(t)
  /\ ~Running(t)'
  /\ returned'.kind = "summary" /\ returned'.by = t

\* The statement of C12, for the members whose join handler is not in
\* flight: at the end of every completed pass each guild member whose stored
\* trialUntil is in the future holds the role and has a stored vipUntil that
\* is non-zero and at least trialUntil.
C12_TrialFloor ==
  [][(\E t \in Triggers : Completes(t)) =>
       \A m \in onPlatform' :
         (/\ jh'[m].pc = "idle"
          /\ store'[m] # NoRow
          /\ store'[m].trial_until > now') =>
           /\ m \in roles'
           /\ store'[m].vip_until # 0
           /\ store'[m].vip_until >= store'[m].trial_until]_vars

\* C13: from an empty store on, the vipUntil of every stored record is 0,
\* LIFETIME or the record's trialUntil.
C13_VipShape ==
  \A m \in Users :
    store[m] # NoRow =>
      store[m].vip_until \in {0, LIFETIME_UNTIL, store[m].trial_until}

\* the store holds a record a pass has set to 0 and one a pass has made
\* lifetime
C13_Witness ==
  /\ \E m \in Users : store[m] # NoRow /\ store[m].vip_until = 0
  /\ \E m \in Users : store[m] # NoRow /\ store[m].vip_until = LIFETIME_UNTIL

\* the vip_until the status command reads: 0 for no row and for NULL
VipOf(row) == IF row = NoRow THEN 0 ELSE row.vip_until

\* C14: the status query replies no-VIP when there is no record or vipUntil
\* is 0, lifetime when vipUntil >= LIFETIME, active until vipUntil when
\* vipUntil is in the future and below LIFETIME, and expired when vipUntil is
\* non-zero and not in the future; and it changes neither the store, nor the
\* roles, nor the single-flight flag, whether or not a pass is running.
C14_StatusQuery ==
  /\ [](returned.kind = "status" =>
          LET v == VipOf(returned.row)
              t == returned.at
          IN  /\ returned.reply \in {"noVip", "lifetime", "active", "expired"}
              /\ returned.reply = "noVip" <=> v = 0
              /\ returned.reply = "lifetime" <=> v >= LIFETIME_UNTIL
              /\ returned.reply = "active" <=> (v > t /\ v < LIFETIME_UNTIL)
              /\ returned.reply = "active" => returned.until = v
              /\ returned.reply = "expired" <=> (v # 0 /\ v <= t))
  /\ [][(returned' # returned /\ returned'.kind = "status") =>
          /\ store' = store
          /\ roles' = roles
          /\ syncRunning' = syncRunning]_vars

\* a member whose record a running pass has just made lifetime asks for the
\* status during that pass
C14_Witness ==
  /\ returned.kind = "status"
  /\ syncRunning
  /\ returned.reply = "lifetime"
  /\ hist # NoHist
  /\ hist.store0[returned.by] # returned.row

\* the column of a header row whose trimmed lower-case name is name
ColumnOf(header, name) ==
  CHOOSE i \in 1..Len(header) :
    /\ trim(toLowerCase(header[i])) = name
    /\ \A j \in 1..(i - 1) : trim(toLowerCase(header[j])) # name

\* the identifier of data row i of a roster, trimmed
IdOfRow(rows, i) == trim(Cell(rows[i], ColumnOf(rows[1], S_discord_id)))

\* the approval field of data row i is YES, case and padding ignored
YesInRow(rows, i) ==
  toLowerCase(trim(Cell(rows[i], ColumnOf(rows[1], S_lifetime_vip))))
    = << "y","e","s" >>

\* the last data row that carries identifier id
LastRowOf(rows, id) ==
  CHOOSE i \in 2..Len(rows) :
    IdOfRow(rows, i) = id /\ \A j \in (i + 1)..Len(rows) : IdOfRow(rows, j) # id

\* C15: on a roster of a valid header row and at least one data row, the
\* eligibility map holds exactly the non-empty trimmed identifiers of the
\* data rows, each once, and maps an identifier to true iff the approval
\* field of the last row that carries it is YES, case and padding ignored.
C15_EligibilityMap ==
  returned.kind = "map" =>
    LET ids == {IdOfRow(sheet, i) : i \in 2..Len(sheet)} \ {<< >>}
        map == returned.map
    IN  /\ returned.err = "none"
        /\ {map[i].id : i \in 1..Len(map)} = ids
        /\ Len(map) = Cardinality(ids)
        /\ \A i \in 1..Len(map) :
             map[i].approved <=> YesInRow(sheet, LastRowOf(sheet, map[i].id))

\* the map of a roster in which a later row withdraws the approval an
\* earlier row gives to the same identifier, written with other padding
C15_Witness ==
  /\ returned.kind = "map"
  /\ Len(sheet) = 3
  /\ sheet[2] # sheet[3]
  /\ IdOfRow(sheet, 2) = IdOfRow(sheet, 3)
  /\ IdOfRow(sheet, 2) # << >>
  /\ YesInRow(sheet, 2) /\ ~YesInRow(sheet, 3)
  /\ Len(returned.map) = 1

\* C16: whatever row the first call of ensureTrialRecordFor found, every
\* further call for the same member leaves the store as it is and returns
\* the stored (vipUntil, trialUntil); and a call that backfills trialUntil
\* leaves the stored vipUntil as it was.
C16_EnsureIdempotent ==
  returned.kind = "ensure" =>
    /\ returned.calls >= 2 =>
         /\ store[returned.by] = returned.before
         /\ returned.existing = store[returned.by]
    /\ (returned.before # NoRow /\ returned.before.trial_until = 0) =>
         /\ store[returned.by].trial_until # 0
         /\ store[returned.by].vip_until = returned.before.vip_until

\* a further call, at a later time, after a first call that backfilled the
\* trialUntil of a lifetime row
C16_Witness ==
  /\ returned.kind = "ensure"
  /\ returned.calls >= 2
  /\ now > 1
  /\ returned.first = Row(LIFETIME_UNTIL, 0)
  /\ store[returned.by].trial_until # 0

\* the step changes the row or the role of member m
Touched(m) == store'[m] # store[m] \/ (m \in roles) # (m \in roles')

\* member m is one the downgrade phase of the running pass works on: stored
\* as lifetime when the pass started, not approved by its roster snapshot
Downgradable(t, m) ==
  hist # NoHist /\ LifetimeBefore(m) /\ ~MapApproved(eligibility[t], m)

\* C17: a pass never goes back from a later phase to an earlier one; its
\* grant phase changes approved members only; its downgrade phase changes
\* only members stored as lifetime whom the roster snapshot does not approve;
\* its expiry phase only takes roles away, and from none of the members its
\* downgrade phase works on.
C17_PhaseOrder ==
  [][\A t \in Triggers :
       /\ pc[t] = "downgrade" => pc'[t] # "grant"
       /\ pc[t] = "expiry" => pc'[t] \notin {"grant", "downgrade"}
       /\ \A m \in Users :
            Touched(m) =>
              /\ pc[t] = "grant" => MapApproved(eligibility[t], m)
              /\ pc[t] = "downgrade" => Downgradable(t, m)
              /\ pc[t] = "expiry" =>
                   /\ store'[m] = store[m]
                   /\ m \notin roles'
                   /\ ~Downgradable(t, m)]_vars

\* a completed pass whose downgrade phase has demoted one member to the
\* trial and whose expiry phase has then taken the role from another
C17_Witness ==
  /\ PassDone
  /\ returned.kind = "summary"
  /\ returned.lifetimeDowngraded = 1 /\ returned.expiredRemoved = 1
  /\ \E m \in onPlatform :
       /\ LifetimeBefore(m) /\ ~Approved(m)
       /\ store[m].vip_until = store[m].trial_until /\ store[m].vip_until > now
       /\ m \in roles
  /\ \E m \in onPlatform :
       ExpiredBefore(m) /\ m \in hist.roles0 /\ m \notin roles

\* the stored vipUntil is non-zero, below LIFETIME and not after time t
ExpiredAt(row, t) ==
  /\ row # NoRow
  /\ row.vip_until # 0
  /\ row.vip_until < LIFETIME_UNTIL
  /\ row.vip_until <= t

\* C18: an id that is not a member of the guild is skipped by all three
\* phases, and the pass goes on: the pass ends with its summary, the row of
\* that id is as it was and the id holds no role, and the three counts count
\* guild members only (expiredRemoved: those whose row was expired when the
\* pass started at the least, those whose row was expired when it ended at
\* the most).
C18_MissingSkipped ==
  /\ (PassEnded /\ EligibilityOf[sheet].err = "none") => hist.ended = "summary"
  /\ (PassDone /\ returned.kind = "summary") =>
       /\ \A m \in Users \ onPlatform : store[m] = Before(m) /\ m \notin roles
       /\ returned.lifetimeEnsured = Cardinality({m \in onPlatform : Approved(m)})
       /\ returned.lifetimeDowngraded =
            Cardinality({m \in onPlatform : LifetimeBefore(m) /\ ~Approved(m)})
       /\ returned.expiredRemoved >=
            Cardinality({m \in onPlatform : ExpiredAt(Before(m), hist.now0)})
       /\ returned.expiredRemoved <=
            Cardinality({m \in onPlatform : ExpiredAt(Before(m), now)})

\* a completed pass has skipped an approved id with an expired row that is
\* not in the guild, and has promoted the other approved id
C18_Witness ==
  /\ PassDone
  /\ returned.kind = "summary"
  /\ returned.lifetimeEnsured = 1
  /\ \E m \in Users \ onPlatform : Approved(m) /\ ExpiredBefore(m)
  /\ \E m \in onPlatform : Approved(m) /\ ~LifetimeBefore(m) /\ LifetimeNow(m)

\* no guild member whose stored vipUntil is 0 or expired holds the role
NoStaleRole ==
  \A m \in onPlatform :
    (store[m] # NoRow /\ (store[m].vip_until = 0 \/ ExpiredAt(store[m], now))) =>
      m \notin roles

\* The statement of C19: once the platform accepts role removals again, the
\* passes that follow take the role from every guild member whose stored
\* vipUntil is 0 or in the past.
C19_SelfCorrects == (~rejecting) ~> NoStaleRole

\* The statement of C20: when the hourly cleanup takes the role from a
\* member, the stored vipUntil of that member is neither >= LIFETIME nor in
\* the future at that moment.
C20_CleanupRemovesExpiredOnly ==
  [][\A m \in Users :
       (/\ cleanup.pc = "expiry"
        /\ cleanup' # cleanup
        /\ m \in onPlatform'
        /\ m \in roles /\ m \notin roles') =>
         ~(/\ store[m] # NoRow
           /\ \/ store[m].vip_until >= LIFETIME_UNTIL
              \/ store[m].vip_until > now)]_vars

====

